---- MODULE Spec2Model ----
(***************************************************************************)
(* Qonic -> Maximo synchronisation: the progress journal and snapshot      *)
(* (ProgressTracker.py), the creation of locations with their parents      *)
(* (MaximoClient.sync_location_with_parents, QonicMaximoSync) and the      *)
(* deletion order of cleanup (QonicMaximoSync.cleanup).                    *)
(***************************************************************************)
EXTENDS Integers, Sequences, FiniteSets, TLC

VARIABLES
    pc,                 \* position of the process: "down", "idle", a step of a handler
    lastOp,             \* name and outcome of the last operation that ran
    progress_file,      \* progress.jsonl: [exists, lines, torn]
    final_file,         \* synced_data.json: [state, synced_assets, synced_locations]
    synced_assets,      \* ProgressTracker.synced_assets
    synced_locations,   \* ProgressTracker.synced_locations
    existing_assets,    \* write_final_file: local existing_assets
    existing_locations, \* write_final_file: local existing_locations
    output_data,        \* write_final_file: local output_data
    phase,              \* position of sync.py: the workflow step that runs next
    source_locations,   \* the payload of QonicClient.list_locations: a list of trees
    locations,          \* QonicData.locations, the index built by build_guid_map
    production_location_ids,    \* QonicData.production_location_ids
    pending,            \* sync_locations: the ids the for loop has not reached yet
    synced,             \* sync_locations: the local synced = list()
    upserts,            \* the location upserts sent to Maximo in this run, in order
    maximo,             \* the locations of the target, as (location, parent) pairs
    products,           \* QonicData.products
    product_i,          \* sync_products: the place of the next product
    run,                \* how many times sync.py has been started
    cleanup_locations,  \* cleanup: the local synced_locations, journal and snapshot joined
    cleanup_assets,     \* cleanup: the local synced_assets, journal and snapshot joined
    parent_of,          \* cleanup: the local parent_of
    deletion_order,     \* cleanup: the local deletion_order
    maximo_assets,      \* the assets of the target, as (ifcguid, assetnum, location)
    assets_todo,        \* cleanup: the recorded assets the first loop has not reached
    order_i,            \* cleanup: the place in deletion_order of the second loop
    deletes             \* the deletes cleanup has attempted, in order

trackerVars == <<progress_file, final_file, synced_assets, synced_locations,
                 existing_assets, existing_locations, output_data>>

runVars == <<phase, source_locations, locations, production_location_ids, pending, synced, upserts,
             maximo, products, product_i, run>>

cleanupVars == <<cleanup_locations, cleanup_assets, parent_of, deletion_order,
                 maximo_assets, assets_todo, order_i, deletes>>

vars == <<pc, lastOp, trackerVars, runVars, cleanupVars>>

----------------------------------------------------------------------------
(* Bounds of the model *)

\* most lines the journal file holds
MaxJournal == 3

\* most nodes of the hierarchy index
MaxNodes == 3

\* most production locations of a run
MaxProduction == 2

\* deepest recursion Python allows before it raises RecursionError
MaxDepth == 5

\* most starts of sync.py
MaxRuns == 2

\* most location edges the journal and the snapshot hold when cleanup starts
MaxEdges == 3

----------------------------------------------------------------------------
(* Identifiers and their order as Python strings *)

\* QonicMaximoSync.parentId, the configured root
parentId == "BUILDINGS"

\* every string of the model, in Python's string order (code points)
StrOrder ==
    <<"1001", "1002", "A", "B", "BUILDINGS", "C", "D", "Default", "F1", "F2", "g1", "g2">>

StrRank(s) == CHOOSE i \in DOMAIN StrOrder : StrOrder[i] = s

\* Python's < on tuples of two strings
PairLess(a, b) ==
    \/ StrRank(a[1]) < StrRank(b[1])
    \/ a[1] = b[1] /\ StrRank(a[2]) < StrRank(b[2])

RECURSIVE SortPairs(_)
\* sorted(S) for a set of 2-tuples
SortPairs(S) ==
    IF S = {} THEN <<>>
    ELSE LET m == CHOOSE x \in S : \A y \in S : x = y \/ PairLess(x, y)
         IN  <<m>> \o SortPairs(S \ {m})

\* set(tuple(a) for a in list)
TupleSet(seq) == {seq[i] : i \in DOMAIN seq}

----------------------------------------------------------------------------
(* The journal (progress.jsonl) and its replay *)

\* the (location, parent) keys and (ifcguid, assetnum) keys the tracker is driven with
LocKeys == {<<"B", "BUILDINGS">>, <<"B", "A">>}
AssetKeys == {<<"g1", "1001">>}

\* a line json.loads or _apply_record raises on
Malformed == [type |-> "malformed", key |-> <<>>]

Records ==
    [type : {"create_location", "delete_location"}, key : LocKeys]
    \cup [type : {"create_asset", "delete_asset"}, key : AssetKeys]

NoFile == [exists |-> FALSE, lines |-> <<>>, torn |-> FALSE]

\* the sets of a tracker: [assets, locations]
Sets(a, l) == [assets |-> a, locations |-> l]

\* _apply_record with create_location replacing the edges of the same child
ApplyRecord_Reparent(s, record) ==
    IF record.type = "create_location"
        THEN Sets(s.assets,
                  {e \in s.locations : e[1] # record.key[1]} \cup {record.key})
    ELSE IF record.type = "delete_location"
        THEN Sets(s.assets, s.locations \ {record.key})
    ELSE IF record.type = "create_asset"
        THEN Sets(s.assets \cup {record.key}, s.locations)
    ELSE IF record.type = "delete_asset"
        THEN Sets(s.assets \ {record.key}, s.locations)
    ELSE s

\* _apply_record with delete_location written as a toggle (^=) instead of discard
ApplyRecord_DeleteToggles(s, record) ==
    IF record.type = "create_location"
        THEN Sets(s.assets, s.locations \cup {record.key})
    ELSE IF record.type = "delete_location"
        THEN Sets(s.assets, IF record.key \in s.locations
                            THEN s.locations \ {record.key}
                            ELSE s.locations \cup {record.key})
    ELSE IF record.type = "create_asset"
        THEN Sets(s.assets \cup {record.key}, s.locations)
    ELSE IF record.type = "delete_asset"
        THEN Sets(s.assets \ {record.key}, s.locations)
    ELSE s

ApplyRecord(s, record) ==
    IF record.type = "create_location"
        THEN Sets(s.assets, s.locations \cup {record.key})
    ELSE IF record.type = "delete_location"
        THEN Sets(s.assets, s.locations \ {record.key})
    ELSE IF record.type = "create_asset"
        THEN Sets(s.assets \cup {record.key}, s.locations)
    ELSE IF record.type = "delete_asset"
        THEN Sets(s.assets \ {record.key}, s.locations)
    ELSE s

RECURSIVE ReplayLines_OneTry(_, _)
\* the loop of load_progress inside one try: the first malformed line ends the replay
ReplayLines_OneTry(s, lines) ==
    IF lines = <<>> \/ Head(lines) = Malformed THEN s
    ELSE ReplayLines_OneTry(ApplyRecord(s, Head(lines)), Tail(lines))

RECURSIVE ReplayLines(_, _)
\* the loop of load_progress over the lines of the file
ReplayLines(s, lines) ==
    IF lines = <<>> THEN s
    ELSE ReplayLines(ApplyRecord(s, Head(lines)), Tail(lines))

\* load_progress: the sets after replaying the file onto the sets s
Replayed(s, file) ==
    IF ~file.exists THEN s ELSE ReplayLines(s, file.lines)

\* open(progress_path, "a") ; f.write(json.dumps(record) + "\n")
\* text written after an unterminated line joins it into one unparsable line
Appended(file, record) ==
    IF file.exists /\ file.torn
        THEN [exists |-> TRUE,
              lines |-> [file.lines EXCEPT ![Len(file.lines)] = Malformed],
              torn |-> FALSE]
        ELSE [exists |-> TRUE, lines |-> Append(file.lines, record), torn |-> FALSE]

\* the file after a crash in the middle of f.write: the line has no newline and
\* holds either the whole record or a prefix of it
TornAppend(file, partial) ==
    IF file.exists /\ file.torn
        THEN [exists |-> TRUE,
              lines |-> [file.lines EXCEPT ![Len(file.lines)] = Malformed],
              torn |-> TRUE]
        ELSE [exists |-> TRUE, lines |-> Append(file.lines, partial), torn |-> TRUE]

CanAppend == Len(progress_file.lines) < MaxJournal

----------------------------------------------------------------------------
(* The snapshot (synced_data.json) *)

NoSnapshot == [state |-> "absent", synced_assets |-> <<>>, synced_locations |-> <<>>]

\* the file after open(final_path, "w") and before json.dump has completed
PartialSnapshot == [state |-> "partial", synced_assets |-> <<>>, synced_locations |-> <<>>]

\* the merge as a union of the old snapshot and the replayed sets
Merged_Union(existing, replayed) == SortPairs(existing \cup replayed)

\* write_final_file: merged_assets / merged_locations
Merged(existing, replayed) ==
    SortPairs((existing \cup replayed) \ (existing \ replayed))

----------------------------------------------------------------------------
(* ProgressTracker *)

\* _write_record from add_* / delete_*: the in-memory set is changed first, and the
\* append may fail with an I/O error, which leaves the file as it was
WriteRecord(record, s, io_ok) ==
    /\ pc = "idle"
    /\ CanAppend
    /\ synced_assets' = s.assets
    /\ synced_locations' = s.locations
    /\ progress_file' = IF io_ok THEN Appended(progress_file, record) ELSE progress_file
    /\ lastOp' = IF io_ok THEN record.type ELSE "write_error"
    /\ UNCHANGED <<pc, final_file, existing_assets, existing_locations, output_data>>

add_location(k, io_ok) ==
    WriteRecord([type |-> "create_location", key |-> k],
                Sets(synced_assets, synced_locations \cup {k}), io_ok)

delete_location(k, io_ok) ==
    WriteRecord([type |-> "delete_location", key |-> k],
                Sets(synced_assets, synced_locations \ {k}), io_ok)

add_asset(k, io_ok) ==
    WriteRecord([type |-> "create_asset", key |-> k],
                Sets(synced_assets \cup {k}, synced_locations), io_ok)

delete_asset(k, io_ok) ==
    WriteRecord([type |-> "delete_asset", key |-> k],
                Sets(synced_assets \ {k}, synced_locations), io_ok)

load_progress ==
    /\ pc = "idle"
    /\ LET s == Replayed(Sets(synced_assets, synced_locations), progress_file)
       IN  /\ synced_assets' = s.assets
           /\ synced_locations' = s.locations
    /\ lastOp' = "load_progress"
    /\ UNCHANGED <<pc, progress_file, final_file, existing_assets, existing_locations,
                   output_data>>

reset_progress ==
    /\ pc = "idle"
    /\ synced_assets' = {}
    /\ synced_locations' = {}
    /\ progress_file' = NoFile
    /\ lastOp' = "reset_progress"
    /\ UNCHANGED <<pc, final_file, existing_assets, existing_locations, output_data>>

\* write_final_file, lines 82-106: json.load of the snapshot raises on a file that is
\* not whole; otherwise the sets are cleared, the journal replayed, the merge computed
\* and the snapshot opened for writing, which empties it
write_final_file_open(open_ok) ==
    /\ pc = "idle"
    /\ IF final_file.state = "partial"
       THEN /\ lastOp' = "commit_read_error"
            /\ UNCHANGED <<pc, trackerVars>>
       ELSE LET ea == TupleSet(final_file.synced_assets)
                el == TupleSet(final_file.synced_locations)
                s  == Replayed(Sets({}, {}), progress_file)
            IN  /\ synced_assets' = s.assets
                /\ synced_locations' = s.locations
                /\ IF open_ok
                   THEN /\ existing_assets' = ea
                        /\ existing_locations' = el
                        /\ output_data' = [state |-> "ok",
                                           synced_assets |-> Merged(ea, s.assets),
                                           synced_locations |-> Merged(el, s.locations)]
                        /\ final_file' = PartialSnapshot
                        /\ pc' = "wf_open"
                        /\ lastOp' = "commit_open"
                   ELSE /\ lastOp' = "commit_open_error"
                        /\ UNCHANGED <<pc, final_file, existing_assets,
                                       existing_locations, output_data>>
                /\ UNCHANGED progress_file

\* write_final_file with the journal removed in a finally clause
write_final_file_dump_Finally(dump_ok) ==
    /\ pc = "wf_open"
    /\ IF dump_ok
       THEN /\ final_file' = output_data
            /\ pc' = "wf_written"
            /\ lastOp' = "commit_dump"
            /\ UNCHANGED <<existing_assets, existing_locations, output_data,
                           progress_file>>
       ELSE /\ pc' = "idle"
            /\ lastOp' = "commit_write_error"
            /\ existing_assets' = {}
            /\ existing_locations' = {}
            /\ output_data' = NoSnapshot
            /\ progress_file' = NoFile
            /\ UNCHANGED final_file
    /\ UNCHANGED <<synced_assets, synced_locations>>

\* write_final_file, line 107 and the end of the with block: json.dump completes,
\* or fails and the exception leaves write_final_file
write_final_file_dump(dump_ok) ==
    /\ pc = "wf_open"
    /\ IF dump_ok
       THEN /\ final_file' = output_data
            /\ pc' = "wf_written"
            /\ lastOp' = "commit_dump"
            /\ UNCHANGED <<existing_assets, existing_locations, output_data>>
       ELSE /\ pc' = "idle"
            /\ lastOp' = "commit_write_error"
            /\ existing_assets' = {}
            /\ existing_locations' = {}
            /\ output_data' = NoSnapshot
            /\ UNCHANGED final_file
    /\ UNCHANGED <<progress_file, synced_assets, synced_locations>>

\* write_final_file, lines 109-110
write_final_file_remove ==
    /\ pc = "wf_written"
    /\ progress_file' = NoFile
    /\ pc' = "idle"
    /\ lastOp' = "commit"
    /\ existing_assets' = {}
    /\ existing_locations' = {}
    /\ output_data' = NoSnapshot
    /\ UNCHANGED <<final_file, synced_assets, synced_locations>>

\* the process dies: the files stay, everything in memory is lost
Crash ==
    /\ pc # "down"
    /\ pc' = "down"
    /\ lastOp' = "crash"
    /\ synced_assets' = {}
    /\ synced_locations' = {}
    /\ existing_assets' = {}
    /\ existing_locations' = {}
    /\ output_data' = NoSnapshot
    /\ UNCHANGED <<progress_file, final_file>>

\* the process dies inside f.write of _write_record
CrashInWrite(partial) ==
    /\ pc = "idle"
    /\ CanAppend
    /\ pc' = "down"
    /\ lastOp' = "crash_in_write"
    /\ progress_file' = TornAppend(progress_file, partial)
    /\ synced_assets' = {}
    /\ synced_locations' = {}
    /\ UNCHANGED <<final_file, existing_assets, existing_locations, output_data>>

\* ProgressTracker.__init__ without the replay of an existing journal
TrackerInit_NoReplay ==
    /\ pc = "down"
    /\ pc' = "idle"
    /\ lastOp' = "init"
    /\ synced_assets' = {}
    /\ synced_locations' = {}
    /\ UNCHANGED <<progress_file, final_file, existing_assets, existing_locations,
                   output_data>>

\* ProgressTracker.__init__, run when the module is imported by the next process
TrackerInit ==
    /\ pc = "down"
    /\ pc' = "idle"
    /\ lastOp' = "init"
    /\ LET s == Replayed(Sets({}, {}), progress_file)
       IN  /\ synced_assets' = s.assets
           /\ synced_locations' = s.locations
    /\ UNCHANGED <<progress_file, final_file, existing_assets, existing_locations,
                   output_data>>

----------------------------------------------------------------------------
(* The tracker driven by any sequence of its operations, with crashes *)

\* nothing of the orchestrator is running
NoRun ==
    /\ phase = "none"
    /\ source_locations = <<>>
    /\ locations = <<>>
    /\ production_location_ids = {}
    /\ pending = {}
    /\ synced = <<>>
    /\ upserts = <<>>
    /\ maximo = {}
    /\ products = <<>>
    /\ product_i = 1
    /\ run = 0

\* cleanup has not run
NoCleanup ==
    /\ cleanup_locations = {}
    /\ cleanup_assets = {}
    /\ parent_of = <<>>
    /\ deletion_order = <<>>
    /\ maximo_assets = {}
    /\ assets_todo = {}
    /\ order_i = 1
    /\ deletes = <<>>

\* a tracker just constructed, with no journal and no snapshot on disk
FreshTracker ==
    /\ pc = "idle"
    /\ lastOp = "init"
    /\ progress_file = NoFile
    /\ final_file = NoSnapshot
    /\ synced_assets = {}
    /\ synced_locations = {}
    /\ existing_assets = {}
    /\ existing_locations = {}
    /\ output_data = NoSnapshot

Init == FreshTracker /\ NoRun /\ NoCleanup

Next ==
    \/ \E k \in LocKeys, io_ok \in BOOLEAN :
          add_location(k, io_ok) /\ UNCHANGED <<runVars, cleanupVars>>
    \/ \E k \in LocKeys, io_ok \in BOOLEAN :
          delete_location(k, io_ok) /\ UNCHANGED <<runVars, cleanupVars>>
    \/ \E k \in AssetKeys, io_ok \in BOOLEAN :
          add_asset(k, io_ok) /\ UNCHANGED <<runVars, cleanupVars>>
    \/ \E k \in AssetKeys, io_ok \in BOOLEAN :
          delete_asset(k, io_ok) /\ UNCHANGED <<runVars, cleanupVars>>
    \/ load_progress /\ UNCHANGED <<runVars, cleanupVars>>
    \/ reset_progress /\ UNCHANGED <<runVars, cleanupVars>>
    \/ \E open_ok \in BOOLEAN : write_final_file_open(open_ok) /\ UNCHANGED <<runVars, cleanupVars>>
    \/ \E dump_ok \in BOOLEAN : write_final_file_dump(dump_ok) /\ UNCHANGED <<runVars, cleanupVars>>
    \/ write_final_file_remove /\ UNCHANGED <<runVars, cleanupVars>>
    \/ Crash /\ UNCHANGED <<runVars, cleanupVars>>
    \/ \E partial \in Records \cup {Malformed} :
          CrashInWrite(partial) /\ UNCHANGED <<runVars, cleanupVars>>
    \/ TrackerInit /\ UNCHANGED <<runVars, cleanupVars>>

Spec == Init /\ [][Next]_vars

----------------------------------------------------------------------------
(* The hierarchy index and the creation of locations with their parents *)

\* Python's None
None == "None"

\* the Guid property of the source locations
Guids == {"A", "B", "C", "D"}

\* the name of the source location with a Guid; one location is a placeholder
NodeName(g) == IF g = "D" THEN "Default" ELSE g

\* the indexes build_guid_map can return: every location has a name and the
\* parentGuid its traversal gave it, None or the Guid of an indexed location
\* (a Guid that occurs twice in the payload can close a cycle)
Indexes ==
    UNION {{[g \in dom |-> [name |-> NodeName(g), parentGuid |-> par[g]]] :
                par \in [dom -> dom \cup {None}]} :
           dom \in {d \in SUBSET Guids : Cardinality(d) <= MaxNodes}}

\* what a call leaves: the upserts it sent, the synced collection, and how it ended:
\* kind "return" with the response's location (None for return None), or "raise"
Outcome(ups, syn, kind, value) ==
    [ups |-> ups, synced |-> syn, kind |-> kind, value |-> value]

\* one upsert sent to Maximo by MaximoClient.sync_location
Upsert(g, name, parent, ok) ==
    [guid |-> g, location |-> name, parent |-> parent, ok |-> ok]

\* synced.add(location_id) on the list() that sync_locations passes: a list has no
\* add, the call raises AttributeError
SyncedAdd(syn, g) == [ok |-> FALSE, synced |-> syn]

\* the recursive call wrapped in a try that falls back to the parent's name
ParentRef_Fallback(r, parent_name) ==
    [kind |-> "return", value |-> parent_name]

\* what the caller makes of the recursive call for its parent, r[...]['location']:
\* an exception goes on up, None['location'] raises TypeError
ParentRef(r, parent_name) ==
    IF r.kind = "raise" THEN [kind |-> "raise", value |-> r.value]
    ELSE IF r.value = None THEN [kind |-> "raise", value |-> "TypeError"]
    ELSE [kind |-> "return", value |-> r.value]

\* lines 390-398 with the failure of the upsert swallowed: the call returns the name
UpsertAndRecord_FailureReturns(g, idx, parent, ups, syn, fails) ==
    IF g \in fails
    THEN Outcome(Append(ups, Upsert(g, idx[g].name, parent, FALSE)), syn,
                 "return", idx[g].name)
    ELSE LET sent  == Append(ups, Upsert(g, idx[g].name, parent, TRUE))
             added == SyncedAdd(syn, g)
         IN  IF added.ok
             THEN Outcome(sent, added.synced, "return", idx[g].name)
             ELSE Outcome(sent, added.synced, "raise", "AttributeError")

\* lines 390-398: the upsert of location g under parent, then synced.add
UpsertAndRecord(g, idx, parent, ups, syn, fails) ==
    IF g \in fails
    THEN Outcome(Append(ups, Upsert(g, idx[g].name, parent, FALSE)), syn,
                 "raise", "MaximoException")
    ELSE LET sent  == Append(ups, Upsert(g, idx[g].name, parent, TRUE))
             added == SyncedAdd(syn, g)
         IN  IF added.ok
             THEN Outcome(sent, added.synced, "return", idx[g].name)
             ELSE Outcome(sent, added.synced, "raise", "AttributeError")

RECURSIVE SyncLocationWithParents(_, _, _, _, _, _)

RECURSIVE SyncLocationWithParents_NoFlatten(_, _, _, _, _, _)
\* lines 353-398 without the test on the name of the parent: a parent named
\* "Default" is synced like every other parent
SyncLocationWithParents_NoFlatten(g, idx, ups, syn, fails, depth) ==
    IF depth > MaxDepth THEN Outcome(ups, syn, "raise", "RecursionError")
    ELSE IF \E i \in DOMAIN syn : syn[i] = g THEN Outcome(ups, syn, "return", None)
    ELSE IF g \notin DOMAIN idx THEN Outcome(ups, syn, "return", None)
    ELSE LET parent_guid == idx[g].parentGuid
             parent_name == IF parent_guid # None /\ parent_guid \in DOMAIN idx
                            THEN idx[parent_guid].name ELSE None
         IN  IF parent_guid = None
             THEN UpsertAndRecord(g, idx, parentId, ups, syn, fails)
             ELSE LET r   == SyncLocationWithParents_NoFlatten(parent_guid, idx, ups,
                                                               syn, fails, depth + 1)
                      ref == ParentRef(r, parent_name)
                  IN  IF ref.kind = "raise"
                      THEN Outcome(r.ups, r.synced, "raise", ref.value)
                      ELSE UpsertAndRecord(g, idx, ref.value, r.ups, r.synced, fails)

\* MaximoClient.sync_location_with_parents(location_id, locations, ..., synced) with
\* delete=False, at recursion depth `depth`, having sent the upserts ups; the upserts
\* of the locations in fails are refused by Maximo
SyncLocationWithParents(g, idx, ups, syn, fails, depth) ==
    IF depth > MaxDepth THEN Outcome(ups, syn, "raise", "RecursionError")
    ELSE IF \E i \in DOMAIN syn : syn[i] = g THEN Outcome(ups, syn, "return", None)
    ELSE IF g \notin DOMAIN idx THEN Outcome(ups, syn, "return", None)
    ELSE LET parent_guid == idx[g].parentGuid
             parent_name == IF parent_guid # None /\ parent_guid \in DOMAIN idx
                            THEN idx[parent_guid].name ELSE None
         IN  IF parent_guid = None \/ parent_name = "Default"
             THEN UpsertAndRecord(g, idx, parentId, ups, syn, fails)
             ELSE LET r   == SyncLocationWithParents(parent_guid, idx, ups, syn,
                                                     fails, depth + 1)
                      ref == ParentRef(r, parent_name)
                  IN  IF ref.kind = "raise"
                      THEN Outcome(r.ups, r.synced, "raise", ref.value)
                      ELSE UpsertAndRecord(g, idx, ref.value, r.ups, r.synced, fails)

RECURSIVE ApplyUpserts(_, _)
\* the target after the upserts it accepted: AddChange creates the location or moves
\* it under the parent of the payload
ApplyUpserts(m, ups) ==
    IF ups = <<>> THEN m
    ELSE LET u == Head(ups)
         IN  ApplyUpserts(IF u.ok
                          THEN {e \in m : e[1] # u.location} \cup {<<u.location, u.parent>>}
                          ELSE m,
                          Tail(ups))

\* sync_location without its try: an exception of sync_location_with_parents leaves
\* sync_locations and ends the run
sync_location_NoCatch(location_id, fails) ==
    /\ pc = "idle"
    /\ phase = "sync_locations"
    /\ location_id \in pending
    /\ LET r == SyncLocationWithParents(location_id, locations, <<>>, synced, fails, 1)
       IN  /\ upserts' = upserts \o r.ups
           /\ synced' = r.synced
           /\ maximo' = ApplyUpserts(maximo, r.ups)
           /\ lastOp' = IF r.kind = "raise" THEN "sync_location_error"
                        ELSE "sync_location"
           /\ phase' = IF r.kind = "raise" THEN "failed" ELSE phase
    /\ pending' = pending \ {location_id}
    /\ UNCHANGED <<pc, source_locations, locations, production_location_ids, products, product_i,
                   run, trackerVars>>

\* QonicMaximoSync.sync_location for the next id of the loop of sync_locations: the
\* call of sync_location_with_parents, whose exceptions are caught and logged
sync_location(location_id, fails) ==
    /\ pc = "idle"
    /\ phase = "sync_locations"
    /\ location_id \in pending
    /\ LET r == SyncLocationWithParents(location_id, locations, <<>>, synced, fails, 1)
       IN  /\ upserts' = upserts \o r.ups
           /\ synced' = r.synced
           /\ maximo' = ApplyUpserts(maximo, r.ups)
           /\ lastOp' = IF r.kind = "raise" THEN "sync_location_error"
                        ELSE "sync_location"
    /\ pending' = pending \ {location_id}
    /\ UNCHANGED <<pc, phase, source_locations,
                   locations, production_location_ids, products, product_i,
                   run, trackerVars>>

----------------------------------------------------------------------------
(* One pass of sync_locations over any index and any production locations *)

InitCreate ==
    /\ FreshTracker
    /\ phase = "sync_locations"
    /\ source_locations = <<>>
    /\ locations \in Indexes
    /\ production_location_ids \in
          {ids \in SUBSET Guids : Cardinality(ids) \in 1..MaxProduction}
    /\ pending = production_location_ids
    /\ synced = <<>>
    /\ upserts = <<>>
    /\ maximo = {}
    /\ products = <<>>
    /\ product_i = 1
    /\ run = 1
    /\ NoCleanup

NextCreate ==
    \E location_id \in Guids, fails \in SUBSET Guids :
        sync_location(location_id, fails) /\ UNCHANGED cleanupVars

SpecCreate == InitCreate /\ [][NextCreate]_vars

\* the pass when Maximo refuses no upsert; the for loop of sync_locations goes on
\* while a production location is left
NextCreateNoFail ==
    \E location_id \in Guids :
        sync_location(location_id, {}) /\ UNCHANGED cleanupVars

SpecCreateFair ==
    InitCreate /\ [][NextCreateNoFail]_vars /\ WF_vars(NextCreateNoFail)

----------------------------------------------------------------------------
(* QonicClient.list_locations: the hierarchy index of a payload of location trees *)

\* a location of the payload: the value of its Guid property (None when it has no
\* such property) and its children
Location(guid, children) == [guid |-> guid, children |-> children]

RECURSIVE BuildGuidMap_SkipsSubtree(_, _, _)
\* build_guid_map that does not go below a location without a Guid
BuildGuidMap_SkipsSubtree(locs, guid_map, parent_guid) ==
    IF locs = <<>> THEN guid_map
    ELSE LET loc   == Head(locs)
             guid  == loc.guid
             entry == [name |-> NodeName(guid), parentGuid |-> parent_guid]
             m1    == IF guid # None THEN (guid :> entry) @@ guid_map ELSE guid_map
             m2    == IF loc.children # <<>> /\ guid # None
                      THEN BuildGuidMap_SkipsSubtree(loc.children, m1, guid)
                      ELSE m1
         IN  BuildGuidMap_SkipsSubtree(Tail(locs), m2, parent_guid)

RECURSIVE BuildGuidMap(_, _, _)
\* build_guid_map(locations, guid_map, parent_guid): every location gets the Guid of
\* the location above it as parentGuid (None at the top and below a location without
\* a Guid) and is indexed under its own Guid when it has one; a Guid met again
\* replaces the entry
BuildGuidMap(locs, guid_map, parent_guid) ==
    IF locs = <<>> THEN guid_map
    ELSE LET loc   == Head(locs)
             guid  == loc.guid
             entry == [name |-> NodeName(guid), parentGuid |-> parent_guid]
             m1    == IF guid # None THEN (guid :> entry) @@ guid_map ELSE guid_map
             m2    == IF loc.children # <<>>
                      THEN BuildGuidMap(loc.children, m1, guid)
                      ELSE m1
         IN  BuildGuidMap(Tail(locs), m2, parent_guid)

\* the payloads: one tree of up to three levels, or two locations side by side; a
\* location has one of three Guids or none
PayloadGuids == {"A", "B", "D", None}
Leaves == {Location(g, <<>>) : g \in PayloadGuids}
Shallow ==
    Leaves \cup {Location(g, <<c>>) : g \in PayloadGuids, c \in Leaves}
           \cup {Location(g, <<c, d>>) : g \in PayloadGuids, c \in Leaves, d \in Leaves}
Payloads ==
    {<<n>> : n \in Shallow}
        \cup {<<Location(g, <<c>>)>> : g \in PayloadGuids, c \in Shallow}
        \cup {<<c, d>> : c \in Leaves, d \in Leaves}

\* init_qonic_data: list_locations builds the index of the payload
init_qonic_data ==
    /\ pc = "idle"
    /\ phase = "init_qonic_data"
    /\ locations' = BuildGuidMap(source_locations, <<>>, None)
    /\ phase' = "sync_locations"
    /\ lastOp' = "init_qonic_data"
    /\ UNCHANGED <<pc, source_locations, production_location_ids, pending, synced,
                   upserts, maximo, products, product_i, run, trackerVars>>

InitIndex ==
    /\ FreshTracker
    /\ phase = "init_qonic_data"
    /\ source_locations \in Payloads
    /\ locations = <<>>
    /\ production_location_ids \in
          {ids \in SUBSET {"A", "B"} : Cardinality(ids) \in 1..MaxProduction}
    /\ pending = production_location_ids
    /\ synced = <<>>
    /\ upserts = <<>>
    /\ maximo = {}
    /\ products = <<>>
    /\ product_i = 1
    /\ run = 1
    /\ NoCleanup

NextIndex ==
    \/ init_qonic_data /\ UNCHANGED cleanupVars
    \/ \E location_id \in Guids, fails \in SUBSET {"A", "B"} :
          sync_location(location_id, fails) /\ UNCHANGED cleanupVars

SpecIndex == InitIndex /\ [][NextIndex]_vars

----------------------------------------------------------------------------
(* sync.py: the full synchronisation, run after run *)

\* the products a run works on: Guid, FunctionalLocationId (the id of the location
\* made for the product), SpatialLocation.SpatialLocationId, and the assetnum Maximo
\* answers with
Product(guid, fl, spatial, assetnum) ==
    [Guid |-> guid, FunctionalLocationId |-> fl, SpatialLocationId |-> spatial,
     assetnum |-> assetnum]

ProductLists ==
    LET first  == {Product("g1", "F1", sp, "1001") : sp \in {"A", "B"}}
                      \cup {Product("g1", "A", "B", "1001")}
        second == {Product("g2", "F2", "B", "1002")}
    IN  {<<p>> : p \in first} \cup {<<p, q>> : p \in first, q \in second}

\* QonicData.__init__: production_location_ids
ProductionLocationIds(prods) ==
    {prods[i].SpatialLocationId : i \in {j \in DOMAIN prods : prods[j].SpatialLocationId # None}}

\* the indexes of the runs: the locations A and B
RunIndexes == {idx \in Indexes : DOMAIN idx \subseteq {"A", "B"}}

\* sync.py up to sync_locations: the imports construct the tracker, which replays the
\* journal a crashed run left; QonicMaximoSync() and init_qonic_data follow
RunStart ==
    /\ run < MaxRuns
    /\ TrackerInit
    /\ run' = run + 1
    /\ phase' = "sync_locations"
    /\ production_location_ids' = ProductionLocationIds(products)
    /\ pending' = ProductionLocationIds(products)
    /\ synced' = <<>>
    /\ upserts' = <<>>
    /\ product_i' = 1
    /\ UNCHANGED <<source_locations, locations, products, maximo>>

\* sync_locations: the for loop has ended
sync_locations_done ==
    /\ pc = "idle"
    /\ phase = "sync_locations"
    /\ pending = {}
    /\ phase' = "sync_products"
    /\ lastOp' = "sync_locations"
    /\ UNCHANGED <<pc, trackerVars, source_locations,
                   locations, production_location_ids, pending, synced,
                   upserts, maximo, products, product_i, run>>

\* the ways one sync_product can go
ProductOutcomes ==
    {"location_error", "location_write_error", "no_asset_payload", "asset_error",
     "asset_write_error", "ok"}

\* QonicMaximoSync.sync_product for the next product of sync_products; every
\* exception is caught and logged
sync_product(outcome) ==
    /\ pc = "idle"
    /\ phase = "sync_products"
    /\ product_i <= Len(products)
    /\ Len(progress_file.lines) + 2 <= MaxJournal
    /\ LET product  == products[product_i]
           known    == product.SpatialLocationId \in DOMAIN locations
           parent   == locations[product.SpatialLocationId].name
           loc_key  == <<product.FunctionalLocationId, parent>>
           loc_rec  == [type |-> "create_location", key |-> loc_key]
           ast_key  == <<product.Guid, product.assetnum>>
           ast_rec  == [type |-> "create_asset", key |-> ast_key]
           upserted == {e \in maximo : e[1] # loc_key[1]} \cup {loc_key}
       IN  IF ~known \/ outcome = "location_error"
           THEN \* the mapper raises ValueError, or Maximo refuses the upsert
                /\ lastOp' = "sync_product_error"
                /\ UNCHANGED <<maximo, progress_file, synced_locations, synced_assets>>
           ELSE /\ maximo' = upserted
                /\ synced_locations' = synced_locations \cup {loc_key}
                /\ IF outcome = "location_write_error"
                   THEN /\ lastOp' = "sync_product_write_error"
                        /\ UNCHANGED <<progress_file, synced_assets>>
                   ELSE IF outcome \in {"no_asset_payload", "asset_error"}
                   THEN \* maximoClient.delete_location is no method of MaximoClient:
                        \* AttributeError, like an error of the asset upsert
                        /\ progress_file' = Appended(progress_file, loc_rec)
                        /\ lastOp' = IF outcome = "no_asset_payload"
                                     THEN "sync_product_no_payload_error"
                                     ELSE "sync_product_error"
                        /\ UNCHANGED synced_assets
                   ELSE /\ synced_assets' = synced_assets \cup {ast_key}
                        /\ IF outcome = "asset_write_error"
                           THEN /\ progress_file' = Appended(progress_file, loc_rec)
                                /\ lastOp' = "sync_product_write_error"
                           ELSE /\ progress_file' =
                                      Appended(Appended(progress_file, loc_rec), ast_rec)
                                /\ lastOp' = "sync_product"
    /\ product_i' = product_i + 1
    /\ UNCHANGED <<pc, phase, final_file, existing_assets, existing_locations,
                   output_data, source_locations,
                   locations, production_location_ids, pending, synced,
                   upserts, products, run>>

\* sync_products: the for loop has ended
sync_products_done ==
    /\ pc = "idle"
    /\ phase = "sync_products"
    /\ product_i > Len(products)
    /\ phase' = "store_progress"
    /\ lastOp' = "sync_products"
    /\ UNCHANGED <<pc, trackerVars, source_locations,
                   locations, production_location_ids, pending, synced,
                   upserts, maximo, products, product_i, run>>

\* store_progress: the steps of write_final_file; an exception of write_final_file is
\* not caught and ends sync.py
store_progress_open(open_ok) ==
    /\ phase = "store_progress"
    /\ write_final_file_open(open_ok)
    /\ phase' = IF final_file.state = "partial" \/ ~open_ok THEN "failed" ELSE phase
    /\ UNCHANGED <<source_locations,
                   locations, production_location_ids, pending, synced, upserts, maximo,
                   products, product_i, run>>

store_progress_dump(dump_ok) ==
    /\ phase = "store_progress"
    /\ write_final_file_dump(dump_ok)
    /\ phase' = IF dump_ok THEN phase ELSE "failed"
    /\ UNCHANGED <<source_locations,
                   locations, production_location_ids, pending, synced, upserts, maximo,
                   products, product_i, run>>

store_progress_remove ==
    /\ phase = "store_progress"
    /\ write_final_file_remove
    /\ phase' = "push_modifications"
    /\ UNCHANGED <<source_locations,
                   locations, production_location_ids, pending, synced, upserts, maximo,
                   products, product_i, run>>

\* the process ends: after push_modifications_to_qonic, or on the exception of
\* write_final_file
ProcessExit ==
    /\ pc = "idle"
    /\ phase \in {"push_modifications", "failed"}
    /\ pc' = "down"
    /\ phase' = "none"
    /\ lastOp' = "exit"
    /\ synced_assets' = {}
    /\ synced_locations' = {}
    /\ pending' = {}
    /\ synced' = <<>>
    /\ UNCHANGED <<progress_file, final_file, existing_assets, existing_locations,
                   output_data, source_locations,
                   locations, production_location_ids, upserts, maximo,
                   products, product_i, run>>

\* the process dies between two steps
RunCrash ==
    /\ Crash
    /\ phase' = "none"
    /\ pending' = {}
    /\ synced' = <<>>
    /\ UNCHANGED <<source_locations, locations, production_location_ids, upserts, maximo, products,
                   product_i, run>>

\* the process dies in sync_product, inside the f.write of add_location, after Maximo
\* has made the functional location
RunCrashInWrite(whole) ==
    /\ phase = "sync_products"
    /\ product_i <= Len(products)
    /\ products[product_i].SpatialLocationId \in DOMAIN locations
    /\ LET product == products[product_i]
           loc_key == <<product.FunctionalLocationId,
                        locations[product.SpatialLocationId].name>>
       IN  /\ CrashInWrite(IF whole THEN [type |-> "create_location", key |-> loc_key]
                           ELSE Malformed)
           /\ maximo' = {e \in maximo : e[1] # loc_key[1]} \cup {loc_key}
    /\ phase' = "none"
    /\ pending' = {}
    /\ synced' = <<>>
    /\ UNCHANGED <<source_locations,
                   locations, production_location_ids, upserts, products, product_i, run>>

InitRun ==
    /\ pc = "down"
    /\ lastOp = "exit"
    /\ progress_file = NoFile
    /\ final_file = NoSnapshot
    /\ synced_assets = {}
    /\ synced_locations = {}
    /\ existing_assets = {}
    /\ existing_locations = {}
    /\ output_data = NoSnapshot
    /\ phase = "none"
    /\ source_locations = <<>>
    /\ locations \in RunIndexes
    /\ products \in ProductLists
    /\ production_location_ids = ProductionLocationIds(products)
    /\ pending = {}
    /\ synced = <<>>
    /\ upserts = <<>>
    /\ maximo = {}
    /\ product_i = 1
    /\ run = 0
    /\ NoCleanup

NextRun ==
    \/ RunStart /\ UNCHANGED cleanupVars
    \/ \E location_id \in Guids, fails \in SUBSET {"A", "B"} :
          sync_location(location_id, fails) /\ UNCHANGED cleanupVars
    \/ sync_locations_done /\ UNCHANGED cleanupVars
    \/ \E outcome \in ProductOutcomes : sync_product(outcome) /\ UNCHANGED cleanupVars
    \/ sync_products_done /\ UNCHANGED cleanupVars
    \/ \E open_ok \in BOOLEAN : store_progress_open(open_ok) /\ UNCHANGED cleanupVars
    \/ \E dump_ok \in BOOLEAN : store_progress_dump(dump_ok) /\ UNCHANGED cleanupVars
    \/ store_progress_remove /\ UNCHANGED cleanupVars
    \/ ProcessExit /\ UNCHANGED cleanupVars
    \/ RunCrash /\ UNCHANGED cleanupVars
    \/ \E whole \in BOOLEAN : RunCrashInWrite(whole) /\ UNCHANGED cleanupVars

SpecRun == InitRun /\ [][NextRun]_vars

----------------------------------------------------------------------------
(* QonicMaximoSync.cleanup: the graph of the recorded locations and the order of
   their deletion *)

\* the strings of a set as a sorted list: sorted(S)
RECURSIVE SortStrings(_)
SortStrings(S) ==
    IF S = {} THEN <<>>
    ELSE LET m == CHOOSE x \in S : \A y \in S : StrRank(x) <= StrRank(y)
         IN  <<m>> \o SortStrings(S \ {m})

\* nodes: every location that is the child or the parent of an edge
Nodes(edges) == {e[1] : e \in edges} \cup {e[2] : e \in edges}

\* children_of[n]
ChildrenOf(edges, n) == {e[1] : e \in {x \in edges : x[2] = n}}

\* roots without the test on the configured root: always the parents that are no child
Roots_ParentsOnly(edges) ==
    SortStrings(Nodes(edges) \ {e[1] : e \in edges})

\* roots: the configured root alone when it is a node, otherwise the parents that are
\* no child, sorted (children_of has a key for every node)
Roots(edges) ==
    IF parentId \in Nodes(edges) THEN <<parentId>>
    ELSE SortStrings(Nodes(edges) \ {e[1] : e \in edges})

RECURSIVE Dfs(_, _, _)
RECURSIVE DfsAll(_, _, _)
\* for c in ...: dfs(c)
DfsAll(seq, edges, st) ==
    IF seq = <<>> THEN st ELSE DfsAll(Tail(seq), edges, Dfs(Head(seq), edges, st))

\* dfs with order.append(n) moved before the loop over the children
Dfs_PreOrder(n, edges, st) ==
    IF n \in st.visited THEN st
    ELSE DfsAll(SortStrings(ChildrenOf(edges, n)), edges,
                [visited |-> st.visited \cup {n}, order |-> Append(st.order, n)])

\* dfs(n) on the state st = [visited, order]
Dfs(n, edges, st) ==
    IF n \in st.visited THEN st
    ELSE LET below == DfsAll(SortStrings(ChildrenOf(edges, n)), edges,
                             [visited |-> st.visited \cup {n}, order |-> st.order])
         IN  [visited |-> below.visited, order |-> Append(below.order, n)]

\* deletion_order: the post-order from the roots, without the configured root
DeletionOrder(edges) ==
    LET order == DfsAll(Roots(edges), edges, [visited |-> {}, order |-> <<>>]).order
        keep(n) == n \in Nodes(edges) /\ n # parentId
    IN  SelectSeq(order, keep)

\* the values parent_of can have after the loop over the set of edges: the parent of
\* the edge of the child that the loop met last
ParentMaps(edges) ==
    {f \in [{e[1] : e \in edges} -> Nodes(edges)] :
        \A c \in DOMAIN f : <<c, f[c]>> \in edges}

\* cleanup, lines 128-167: the journal is replayed, the snapshot read (open raises
\* when there is no file, json.load when it is not whole), the edges joined, the
\* graph built and the deletion order computed
cleanup_order ==
    /\ pc = "idle"
    /\ phase = "cleanup"
    /\ LET s == Replayed(Sets(synced_assets, synced_locations), progress_file)
       IN  /\ synced_assets' = s.assets
           /\ synced_locations' = s.locations
           /\ IF final_file.state # "ok"
              THEN /\ phase' = "failed"
                   /\ lastOp' = "cleanup_read_error"
                   /\ UNCHANGED cleanupVars
              ELSE LET edges == s.locations \cup TupleSet(final_file.synced_locations)
                   IN  /\ cleanup_locations' = edges
                       /\ cleanup_assets' =
                              s.assets \cup TupleSet(final_file.synced_assets)
                       /\ parent_of' \in ParentMaps(edges)
                       /\ deletion_order' = DeletionOrder(edges)
                       /\ assets_todo' =
                              s.assets \cup TupleSet(final_file.synced_assets)
                       /\ order_i' = 1
                       /\ deletes' = <<>>
                       /\ UNCHANGED maximo_assets
                       /\ phase' = "delete_assets"
                       /\ lastOp' = "cleanup_order"
    /\ UNCHANGED <<pc, progress_file, final_file, existing_assets, existing_locations,
                   output_data, source_locations,
                   locations, production_location_ids, pending, synced,
                   upserts, maximo, products, product_i, run>>

----------------------------------------------------------------------------
(* QonicMaximoSync.cleanup: the deletes *)

\* the methods class MaximoClient defines
ClientMethods ==
    {"get_asset", "query_assets", "query_asset_classes", "sync_asset", "delete_asset",
     "get_domain_values", "get_class_structure", "sync_location", "remove_location",
     "sync_location_with_parents"}

\* a MaximoClient that defines every method its callers use
ClientHas_All(method) == TRUE

\* self.maximoClient.<method> can be looked up; AttributeError otherwise
ClientHas(method) == method \in ClientMethods

\* the target: its locations and its assets
Target(locs, assets) == [locs |-> locs, assets |-> assets]

HasChildren == "Location has children"
HasAssets == "it is referenced in the ASSET table"

\* the answer of Maximo to the Delete of a location: it refuses a location that has
\* children or that an asset references, with the messages delete_location looks
\* for; fails holds the ids whose delete it refuses for another reason
TargetDeleteLocation(t, loc, fails) ==
    IF loc \in fails THEN [ok |-> FALSE, msg |-> "other", t |-> t]
    ELSE IF \E e \in t.locs : e[2] = loc THEN [ok |-> FALSE, msg |-> HasChildren, t |-> t]
    ELSE IF \E a \in t.assets : a[3] = loc THEN [ok |-> FALSE, msg |-> HasAssets, t |-> t]
    ELSE [ok |-> TRUE, msg |-> "",
          t |-> Target({e \in t.locs : e[1] # loc}, t.assets)]

\* a delete_location that returns without a request to the target
ClientDeleteLocation_Stub(t, loc, fails) ==
    [kind |-> "return", msg |-> "", t |-> t]

\* self.maximoClient.delete_location(loc, siteid=.., orgid=..)
ClientDeleteLocation(t, loc, fails) ==
    IF ~ClientHas("delete_location") THEN [kind |-> "AttributeError", msg |-> "", t |-> t]
    ELSE LET r == TargetDeleteLocation(t, loc, fails)
         IN  [kind |-> IF r.ok THEN "return" ELSE "MaximoException", msg |-> r.msg,
              t |-> r.t]

\* self.maximoClient.get_locations_with_parent(loc): the live children, as a list
ClientGetLocationsWithParent(t, loc) ==
    IF ~ClientHas("get_locations_with_parent") THEN [kind |-> "AttributeError", value |-> <<>>]
    ELSE [kind |-> "return", value |-> SortStrings({e[1] : e \in {x \in t.locs : x[2] = loc}})]

RECURSIVE AssetList(_)
\* assets as a list, in the order of their assetnum
AssetList(S) ==
    IF S = {} THEN <<>>
    ELSE LET m == CHOOSE x \in S : \A y \in S : StrRank(x[2]) <= StrRank(y[2])
         IN  <<m>> \o AssetList(S \ {m})

\* self.maximoClient.get_assets_with_location(loc, ..): the live assets at loc
ClientGetAssetsWithLocation(t, loc) ==
    IF ~ClientHas("get_assets_with_location") THEN [kind |-> "AttributeError", value |-> <<>>]
    ELSE [kind |-> "return", value |-> AssetList({a \in t.assets : a[3] = loc})]

\* a delete_asset that does not look at the answer of Maximo
ClientDeleteAsset_NoRaise(t, assetnum, fails) ==
    [kind |-> "return",
     t |-> IF assetnum \in fails THEN t
           ELSE Target(t.locs, {a \in t.assets : a[2] # assetnum})]

\* self.maximoClient.delete_asset(assetnum, ..): fails holds the assetnums whose
\* delete Maximo refuses
ClientDeleteAsset(t, assetnum, fails) ==
    IF assetnum \in fails THEN [kind |-> "MaximoException", t |-> t]
    ELSE [kind |-> "return", t |-> Target(t.locs, {a \in t.assets : a[2] # assetnum})]

\* what a call works on: the target, the journal, the tracker's sets and the log of
\* the deletes
CleanupState(t, file, mem_l, mem_a, log) ==
    [t |-> t, file |-> file, mem_l |-> mem_l, mem_a |-> mem_a, log |-> log]

DeleteAttempt(kind, id, r) ==
    [kind |-> kind, id |-> id, ok |-> r.kind = "return", sent |-> r.kind # "AttributeError"]

\* progressService.delete_location / delete_asset: discard, then _write_record
TrackerDelete(st, type, key, io_ok) ==
    LET st1 == IF type = "delete_location"
               THEN [st EXCEPT !.mem_l = @ \ {key}]
               ELSE [st EXCEPT !.mem_a = @ \ {key}]
    IN  IF io_ok
        THEN [kind |-> "return",
              st |-> [st1 EXCEPT !.file = Appended(@, [type |-> type, key |-> key])]]
        ELSE [kind |-> "raise", st |-> st1]

\* parent_of.get(loc, "")
ParentOfGet(pof, loc) == IF loc \in DOMAIN pof THEN pof[loc] ELSE ""

RECURSIVE DeleteLocation(_, _, _, _, _, _)
RECURSIVE DeleteChildren(_, _, _, _, _, _)
RECURSIVE DeleteLiveAssets(_, _, _, _)

\* lines 108-113: delete_location for each live child, exceptions caught and logged
DeleteChildren(children, pof, st, fails, io_ok, depth) ==
    IF children = <<>> THEN st
    ELSE DeleteChildren(Tail(children), pof,
                        DeleteLocation(Head(children), pof, st, fails, io_ok, depth + 1).st,
                        fails, io_ok, depth)

\* lines 116-123: delete_asset and its record for each live asset, exceptions
\* caught and logged
DeleteLiveAssets(assets, st, fails, io_ok) ==
    IF assets = <<>> THEN st
    ELSE LET a  == Head(assets)
             r  == ClientDeleteAsset(st.t, a[2], fails)
             s1 == [st EXCEPT !.log = Append(@, DeleteAttempt("asset", a[2], r)),
                              !.t = r.t]
             s2 == IF r.kind = "return"
                   THEN TrackerDelete(s1, "delete_asset", <<a[1], a[2]>>, io_ok).st
                   ELSE s1
         IN  DeleteLiveAssets(Tail(assets), s2, fails, io_ok)

\* QonicMaximoSync.delete_location(loc, parent_of): the state it leaves, and whether
\* it returns or raises; only MaximoException is caught
DeleteLocation(loc, pof, st, fails, io_ok, depth) ==
    IF depth > MaxDepth THEN [kind |-> "raise", st |-> st]
    ELSE
    LET r  == ClientDeleteLocation(st.t, loc, fails)
        s1 == [st EXCEPT !.log = Append(@, DeleteAttempt("location", loc, r)), !.t = r.t]
    IN  IF r.kind = "AttributeError" THEN [kind |-> "raise", st |-> s1]
        ELSE IF r.kind = "return"
        THEN TrackerDelete(s1, "delete_location", <<loc, ParentOfGet(pof, loc)>>, io_ok)
        ELSE LET live == IF r.msg = HasChildren
                         THEN ClientGetLocationsWithParent(s1.t, loc)
                         ELSE [kind |-> "return", value |-> <<>>]
                 s2   == DeleteChildren(live.value, pof, s1, fails, io_ok, depth)
                 refs == ClientGetAssetsWithLocation(s2.t, loc)
             IN  IF live.kind # "return" THEN [kind |-> "raise", st |-> s1]
                 ELSE IF r.msg # HasAssets THEN [kind |-> "return", st |-> s2]
                 ELSE IF refs.kind # "return" THEN [kind |-> "raise", st |-> s2]
                 ELSE DeleteLocation(loc, pof,
                                     DeleteLiveAssets(refs.value, s2, fails, io_ok),
                                     fails, io_ok, depth + 1)

\* the variables cleanup's loops leave alone
cleanupFrame == <<pc, final_file, existing_assets, existing_locations, output_data,
                  source_locations, locations, production_location_ids, pending, synced, upserts,
                  products, product_i, run, cleanup_locations, cleanup_assets,
                  parent_of, deletion_order>>

\* the turn of the loop with progressService.delete_asset called whatever the
\* target has answered
cleanup_delete_asset_RecordAlways(key, outcome) ==
    /\ pc = "idle"
    /\ phase = "delete_assets"
    /\ key \in assets_todo
    /\ LET t  == Target(maximo, maximo_assets)
           r  == ClientDeleteAsset(t, key[2], IF outcome = "maximo_error" THEN {key[2]} ELSE {})
           s1 == CleanupState(r.t, progress_file, synced_locations, synced_assets,
                              Append(deletes, DeleteAttempt("asset", key[2], r)))
           w  == TrackerDelete(s1, "delete_asset", key, outcome # "write_error")
       IN  /\ maximo_assets' = w.st.t.assets
           /\ progress_file' = w.st.file
           /\ synced_assets' = w.st.mem_a
           /\ deletes' = w.st.log
           /\ lastOp' = IF w.kind = "return" THEN "cleanup_delete_asset"
                        ELSE "cleanup_delete_asset_error"
    /\ assets_todo' = assets_todo \ {key}
    /\ UNCHANGED <<cleanupFrame, phase, maximo, synced_locations, order_i>>

\* cleanup, lines 170-177: one turn of the loop over the recorded assets, which a set
\* hands out in any order; every exception is caught and logged
cleanup_delete_asset(key, outcome) ==
    /\ pc = "idle"
    /\ phase = "delete_assets"
    /\ key \in assets_todo
    /\ LET t  == Target(maximo, maximo_assets)
           r  == ClientDeleteAsset(t, key[2], IF outcome = "maximo_error" THEN {key[2]} ELSE {})
           s1 == CleanupState(r.t, progress_file, synced_locations, synced_assets,
                              Append(deletes, DeleteAttempt("asset", key[2], r)))
           w  == IF r.kind = "return"
                 THEN TrackerDelete(s1, "delete_asset", key, outcome # "write_error")
                 ELSE [kind |-> "raise", st |-> s1]
       IN  /\ maximo_assets' = w.st.t.assets
           /\ progress_file' = w.st.file
           /\ synced_assets' = w.st.mem_a
           /\ deletes' = w.st.log
           /\ lastOp' = IF w.kind = "return" THEN "cleanup_delete_asset"
                        ELSE "cleanup_delete_asset_error"
    /\ assets_todo' = assets_todo \ {key}
    /\ UNCHANGED <<cleanupFrame, phase, maximo, synced_locations, order_i>>

\* the loop over the recorded assets has ended
cleanup_assets_done ==
    /\ pc = "idle"
    /\ phase = "delete_assets"
    /\ assets_todo = {}
    /\ phase' = "delete_locations"
    /\ lastOp' = "cleanup_assets"
    /\ UNCHANGED <<cleanupFrame, trackerVars, maximo, maximo_assets, assets_todo, order_i,
                   deletes>>

\* cleanup, lines 179-180: one turn of the loop over deletion_order; an exception of
\* delete_location leaves cleanup
cleanup_delete_location(fails, io_ok) ==
    /\ pc = "idle"
    /\ phase = "delete_locations"
    /\ order_i <= Len(deletion_order)
    /\ LET st == CleanupState(Target(maximo, maximo_assets), progress_file,
                              synced_locations, synced_assets, deletes)
           r  == DeleteLocation(deletion_order[order_i], parent_of, st, fails, io_ok, 1)
       IN  /\ maximo' = r.st.t.locs
           /\ maximo_assets' = r.st.t.assets
           /\ progress_file' = r.st.file
           /\ synced_locations' = r.st.mem_l
           /\ synced_assets' = r.st.mem_a
           /\ deletes' = r.st.log
           /\ IF r.kind = "raise"
              THEN /\ phase' = "failed"
                   /\ lastOp' = "cleanup_error"
                   /\ UNCHANGED order_i
              ELSE /\ order_i' = order_i + 1
                   /\ lastOp' = "cleanup_delete_location"
                   /\ UNCHANGED phase
    /\ UNCHANGED <<cleanupFrame, assets_todo>>

\* the loop over deletion_order has ended: cleanup returns
cleanup_done ==
    /\ pc = "idle"
    /\ phase = "delete_locations"
    /\ order_i > Len(deletion_order)
    /\ phase' = "cleanup_done"
    /\ lastOp' = "cleanup"
    /\ UNCHANGED <<cleanupFrame, trackerVars, maximo, maximo_assets, assets_todo, order_i,
                   deletes>>

----------------------------------------------------------------------------
(* cleanup started on any recorded edges *)

\* the ids of the recorded locations
CleanupIds == {"A", "B", "C", parentId}

\* the edges a run can have recorded: a location under another one
Edges == {e \in CleanupIds \X CleanupIds : e[1] # e[2]}

EdgeSets == {E \in SUBSET Edges : Cardinality(E) <= MaxEdges}

\* the journal a crashed run left: create_location records of some of the edges
RECURSIVE CreateLines(_)
CreateLines(keys) ==
    IF keys = <<>> THEN <<>>
    ELSE <<[type |-> "create_location", key |-> Head(keys)]>> \o CreateLines(Tail(keys))

\* the assets recorded when cleanup starts, and the location each is at in the target
RecordedAssetSets == {{}, {<<"g1", "1001">>}, {<<"g1", "1001">>, <<"g2", "1002">>}}

AssetLocation(assetnum) == IF assetnum = "1001" THEN "A" ELSE "B"

\* locations of the target that no run has recorded
UnrecordedLocations == {{}, {<<"D", "A">>}}

InitCleanup ==
    /\ pc = "idle"
    /\ lastOp = "init"
    /\ \E E \in EdgeSets, assets \in RecordedAssetSets :
        \E J \in {{}} \cup {{e} : e \in {x \in E : x = SortPairs(E)[1]}} :
            /\ progress_file = IF J = {} THEN NoFile
                               ELSE [exists |-> TRUE, lines |-> CreateLines(SortPairs(J)),
                                     torn |-> FALSE]
            /\ synced_locations = J
            /\ final_file \in
                  {[state |-> "ok", synced_assets |-> SortPairs(assets),
                    synced_locations |-> SortPairs(E \ J)]}
                  \cup (IF E = J /\ assets = {} THEN {NoSnapshot} ELSE {})
            /\ \E f \in ParentMaps(E), extra \in UnrecordedLocations :
                  maximo = {<<c, f[c]>> : c \in DOMAIN f} \cup extra
            /\ maximo_assets = {<<a[1], a[2], AssetLocation(a[2])>> : a \in assets}
    /\ synced_assets = {}
    /\ existing_assets = {}
    /\ existing_locations = {}
    /\ output_data = NoSnapshot
    /\ phase = "cleanup"
    /\ source_locations = <<>>
    /\ locations = <<>>
    /\ production_location_ids = {}
    /\ pending = {}
    /\ synced = <<>>
    /\ upserts = <<>>
    /\ products = <<>>
    /\ product_i = 1
    /\ run = 1
    /\ cleanup_locations = {}
    /\ cleanup_assets = {}
    /\ parent_of = <<>>
    /\ deletion_order = <<>>
    /\ assets_todo = {}
    /\ order_i = 1
    /\ deletes = <<>>

\* the ways one delete of a recorded asset can go
AssetOutcomes == {"ok", "maximo_error", "write_error"}

NextCleanup ==
    \/ cleanup_order
    \/ \E key \in assets_todo, outcome \in AssetOutcomes : cleanup_delete_asset(key, outcome)
    \/ cleanup_assets_done
    \/ \E fails \in {{}, {"A"}, {"1001"}}, io_ok \in BOOLEAN :
          cleanup_delete_location(fails, io_ok)
    \/ cleanup_done

SpecCleanup == InitCleanup /\ [][NextCleanup]_vars

\* store_progress called after cleanup has returned: the steps of write_final_file
store_after_cleanup_open(open_ok) ==
    /\ phase = "cleanup_done"
    /\ write_final_file_open(open_ok)
    /\ UNCHANGED <<runVars, cleanupVars>>

store_after_cleanup_dump(dump_ok) ==
    /\ phase = "cleanup_done"
    /\ write_final_file_dump(dump_ok)
    /\ UNCHANGED <<runVars, cleanupVars>>

store_after_cleanup_remove ==
    /\ phase = "cleanup_done"
    /\ write_final_file_remove
    /\ phase' = "stored"
    /\ UNCHANGED <<source_locations, locations, production_location_ids, pending,
                   synced, upserts, maximo, products, product_i, run, cleanupVars>>

NextCleanupStore ==
    \/ NextCleanup
    \/ \E open_ok \in BOOLEAN : store_after_cleanup_open(open_ok)
    \/ \E dump_ok \in BOOLEAN : store_after_cleanup_dump(dump_ok)
    \/ store_after_cleanup_remove

SpecCleanupStore == InitCleanup /\ [][NextCleanupStore]_vars

----------------------------------------------------------------------------
(* Claims about the creation of locations *)

RECURSIVE AncestorsWithin(_, _, _)
\* the Guids met on the parentGuid chain of g, in at most n steps
AncestorsWithin(g, idx, n) ==
    IF n = 0 \/ g \notin DOMAIN idx \/ idx[g].parentGuid = None THEN {}
    ELSE {idx[g].parentGuid} \cup AncestorsWithin(idx[g].parentGuid, idx, n - 1)

Ancestors(g) == AncestorsWithin(g, locations, Cardinality(DOMAIN locations))

\* the places of the journal's create_location records of a location
CreatedAt(location) ==
    {n \in DOMAIN progress_file.lines :
        /\ progress_file.lines[n].type = "create_location"
        /\ progress_file.lines[n].key[1] = location}

\* C7: every location sync_location_with_parents has synced in this run has a
\* create_location record in the journal, and the record of an ancestor comes
\* before the record of its descendant.
C7_AncestorJournaledBeforeDescendant ==
    \A i, j \in DOMAIN upserts :
        (upserts[i].ok /\ upserts[j].ok
            /\ (i = j \/ upserts[i].guid \in Ancestors(upserts[j].guid)))
        => /\ CreatedAt(upserts[i].location) # {}
           /\ CreatedAt(upserts[j].location) # {}
           /\ i # j => \E n \in CreatedAt(upserts[i].location) :
                          \A m \in CreatedAt(upserts[j].location) : n < m

C9_UpsertedAtMostOncePerRun ==
    \A i, j \in DOMAIN upserts :
        (i # j /\ upserts[i].ok /\ upserts[j].ok) => upserts[i].guid # upserts[j].guid

----------------------------------------------------------------------------
(* Replay as a function of the journal and of the sets it starts from *)

\* the journals of at most MaxJournal lines
RECURSIVE LinesUpTo(_)
LinesUpTo(n) ==
    IF n = 0 THEN {<<>>}
    ELSE LET shorter == LinesUpTo(n - 1)
         IN  shorter \cup {Append(l, r) : l \in shorter, r \in Records \cup {Malformed}}

JournalFiles ==
    {NoFile} \cup [exists : {TRUE}, lines : LinesUpTo(MaxJournal), torn : {FALSE}]

InitReplay ==
    /\ pc = "idle"
    /\ lastOp = "init"
    /\ progress_file \in JournalFiles
    /\ final_file = NoSnapshot
    /\ synced_assets \in SUBSET AssetKeys
    /\ synced_locations \in SUBSET LocKeys
    /\ existing_assets = {}
    /\ existing_locations = {}
    /\ output_data = NoSnapshot
    /\ NoRun
    /\ NoCleanup

NextReplay == load_progress /\ UNCHANGED <<runVars, cleanupVars>>

SpecReplay == InitReplay /\ [][NextReplay]_vars

----------------------------------------------------------------------------
(* Claims about the journal and the snapshot *)

IsLocationRecord(r) == r.type \in {"create_location", "delete_location"}
IsAssetRecord(r) == r.type \in {"create_asset", "delete_asset"}

\* the kind of entity a record is about
Family(r) ==
    IF IsLocationRecord(r) THEN "location" ELSE IF IsAssetRecord(r) THEN "asset" ELSE "none"

\* the keys whose last record in the journal has type t
NetEffect(lines, t) ==
    {k \in {lines[i].key : i \in DOMAIN lines} :
        \E i \in DOMAIN lines :
            /\ lines[i].type = t
            /\ lines[i].key = k
            /\ \A j \in DOMAIN lines :
                  (j > i /\ Family(lines[j]) = Family(lines[i])) => lines[j].key # k}

\* C1: the snapshot written by write_final_file is the existing snapshot plus the
\* keys the journal nets to a create, minus the keys it nets to a delete; entries of
\* the existing snapshot that the journal does not mention are kept.
C1_CommitMergesJournalIntoSnapshot ==
    pc = "wf_written" =>
        /\ final_file.state = "ok"
        /\ TupleSet(final_file.synced_locations) =
              (existing_locations \cup NetEffect(progress_file.lines, "create_location"))
                  \ NetEffect(progress_file.lines, "delete_location")
        /\ TupleSet(final_file.synced_assets) =
              (existing_assets \cup NetEffect(progress_file.lines, "create_asset"))
                  \ NetEffect(progress_file.lines, "delete_asset")

\* C2: after a crash the snapshot file is a whole snapshot (the old or the new one),
\* never an empty or partially written file.
C2_SnapshotWholeAfterCrash ==
    pc = "down" => final_file.state # "partial"

\* C3: a commit attempt that fails while opening, reading or writing the snapshot
\* leaves the journal file in place with every record it held.
C3_JournalKeptWhenCommitFails ==
    [][lastOp' \in {"commit_open", "commit_open_error", "commit_read_error",
                    "commit_write_error"}
         => progress_file' = progress_file]_vars

C3_Witness ==
    /\ lastOp = "commit_write_error"
    /\ final_file.state = "partial"
    /\ progress_file.exists
    /\ Len(progress_file.lines) >= 2

\* C4: after load_progress has run, running it again leaves synced_assets and
\* synced_locations as they are, whatever the journal and the sets it started from.
C4_ReplayIdempotent ==
    lastOp = "load_progress" =>
        Replayed(Sets(synced_assets, synced_locations), progress_file)
            = Sets(synced_assets, synced_locations)

C4_Witness ==
    /\ lastOp = "load_progress"
    /\ \E i, j \in DOMAIN progress_file.lines :
          /\ i < j
          /\ progress_file.lines[i].type = "delete_location"
          /\ progress_file.lines[j].type = "create_location"
    /\ \E k \in synced_locations :
          \A i \in DOMAIN progress_file.lines : progress_file.lines[i].key # k
    /\ synced_assets = {}

----------------------------------------------------------------------------
(* Claims about crash recovery *)

\* the lines of the journal that end with a newline
TerminatedLines(file) ==
    IF file.torn THEN SubSeq(file.lines, 1, Len(file.lines) - 1) ELSE file.lines

IsPrefix(a, b) == Len(a) <= Len(b) /\ SubSeq(b, 1, Len(a)) = a

\* C5: when the process dies the journal file stays, with every complete line it
\* held; the start of the next run replays the journal into the tracker's sets before
\* any record is appended and before any call to the target.
C5_JournalSurvivesAndIsReplayedFirst ==
    [][/\ (pc # "down" /\ pc' = "down") =>
              /\ progress_file.exists => progress_file'.exists
              /\ IsPrefix(TerminatedLines(progress_file), progress_file'.lines)
       /\ (pc = "down" /\ pc' # "down") =>
              /\ progress_file' = progress_file
              /\ maximo' = maximo
              /\ upserts' = <<>>
              /\ synced_locations' = NetEffect(progress_file.lines, "create_location")
              /\ synced_assets' = NetEffect(progress_file.lines, "create_asset")
       /\ (progress_file'.lines # progress_file.lines \/ maximo' # maximo
              \/ Len(upserts') > Len(upserts)) => pc # "down"
      ]_vars

\* a second run has started on the journal of a crashed run and has replayed it
C5_Witness ==
    /\ run = 2
    /\ lastOp = "init"
    /\ final_file.state = "absent"
    /\ Len(progress_file.lines) >= 2
    /\ synced_locations # {}
    /\ synced_assets # {}

\* C6: in the run after a crash, sync_location_with_parents sends no upsert for a
\* location that has a create record in the journal the crashed run left, and it
\* writes no journal record.
C6_ReplayedLocationIsNotSyncedAgain ==
    phase = "sync_locations" =>
        /\ \A i \in DOMAIN upserts :
              \A k \in synced_locations : k[1] # upserts[i].guid
        /\ synced_locations = NetEffect(progress_file.lines, "create_location")

----------------------------------------------------------------------------
(* Claims about the deletion order *)

RECURSIVE DescendantsWithin(_, _, _)
\* the locations below n in the recorded edges, at most k edges down
DescendantsWithin(n, edges, k) ==
    IF k = 0 THEN {}
    ELSE LET kids == ChildrenOf(edges, n)
         IN  kids \cup UNION {DescendantsWithin(c, edges, k - 1) : c \in kids}

Descendants(n, edges) == DescendantsWithin(n, edges, Cardinality(edges))

Acyclic(edges) == \A n \in Nodes(edges) : n \notin Descendants(n, edges)

\* C10: for acyclic recorded edges, every location of the deletion order comes after
\* all of its recorded descendants, and the configured root is not in the order.
C10_DeletionOrderChildrenFirst ==
    (lastOp = "cleanup_order" /\ Acyclic(cleanup_locations)) =>
        /\ \A i \in DOMAIN deletion_order : deletion_order[i] # parentId
        /\ \A i \in DOMAIN deletion_order :
              \A d \in Descendants(deletion_order[i], cleanup_locations) :
                  \E j \in 1..(i - 1) : deletion_order[j] = d

\* C under B under A under the configured root: the order is C, B, A
C10_Witness ==
    /\ lastOp = "cleanup_order"
    /\ cleanup_locations = {<<"A", parentId>>, <<"B", "A">>, <<"C", "B">>}
    /\ deletion_order = <<"C", "B", "A">>
    /\ progress_file.exists

----------------------------------------------------------------------------
(* Claims about the deletes of cleanup *)

\* the locations of the target
InTarget(loc) == \E e \in maximo : e[1] = loc

\* the journal holds a delete_location record of loc
DeleteRecorded(loc) ==
    \E n \in DOMAIN progress_file.lines :
        /\ progress_file.lines[n].type = "delete_location"
        /\ progress_file.lines[n].key[1] = loc

\* the target has accepted a delete of loc
DeletedInTarget(loc) ==
    \E n \in DOMAIN deletes :
        deletes[n].kind = "location" /\ deletes[n].id = loc /\ deletes[n].ok

LocationTurn(X) ==
    /\ phase = "delete_locations"
    /\ order_i <= Len(deletion_order)
    /\ deletion_order[order_i] = X
    /\ Len(deletes') > Len(deletes)

\* the entries a step adds to the log of deletes, and the lines it adds to the journal
NewDeletes == SubSeq(deletes', Len(deletes) + 1, Len(deletes'))
NewLines == SubSeq(progress_file'.lines, Len(progress_file.lines) + 1,
                   Len(progress_file'.lines))

\* C12: when delete_location is called for X, whose only child in the target is a
\* location Y without children or assets, Y is deleted, then X, and the journal ends
\* with the delete_location record of Y followed by the one of X.
C12_CascadeOnChildren ==
    [][\A X, Y \in CleanupIds \cup {"D"} :
          (/\ LocationTurn(X)
           /\ {e[1] : e \in {x \in maximo : x[2] = X}} = {Y}
           /\ ~\E e \in maximo : e[2] = Y
           /\ ~\E a \in maximo_assets : a[3] \in {X, Y})
          => /\ ~\E e \in maximo' : e[1] \in {X, Y}
             /\ Len(NewLines) >= 2
             /\ NewLines[Len(NewLines) - 1].type = "delete_location"
             /\ NewLines[Len(NewLines) - 1].key[1] = Y
             /\ NewLines[Len(NewLines)].type = "delete_location"
             /\ NewLines[Len(NewLines)].key[1] = X
      ]_vars

\* C13: when delete_location is called for a location without children that assets
\* of the target reference, a delete of each of these assets is attempted, with a
\* delete_asset record for each that succeeds, and the delete of the location is
\* attempted again after them.
C13_CascadeOnAssets ==
    [][\A X \in CleanupIds :
          (/\ LocationTurn(X)
           /\ ~\E e \in maximo : e[2] = X
           /\ \E a \in maximo_assets : a[3] = X)
          => /\ NewDeletes[Len(NewDeletes)].kind = "location"
             /\ NewDeletes[Len(NewDeletes)].id = X
             /\ \A a \in {b \in maximo_assets : b[3] = X} :
                   \E n \in 2..(Len(NewDeletes) - 1) :
                       /\ NewDeletes[n].kind = "asset"
                       /\ NewDeletes[n].id = a[2]
                       /\ (NewDeletes[n].ok /\ lastOp' # "cleanup_error") =>
                              \E m \in DOMAIN NewLines :
                                  /\ NewLines[m].type = "delete_asset"
                                  /\ NewLines[m].key = <<a[1], a[2]>>
      ]_vars

AssetTurn(key) ==
    /\ phase = "delete_assets"
    /\ key \in assets_todo
    /\ assets_todo' = assets_todo \ {key}

\* C15: when the target does not delete a recorded asset, cleanup writes no record
\* for it, leaves the tracker's sets and the snapshot as they are, and goes on with
\* the assets and locations that remain.
C15_FailedAssetDeleteIsKept ==
    [][\A key \in cleanup_assets :
          (AssetTurn(key) /\ \E a \in maximo_assets' : a[2] = key[2])
          => /\ progress_file' = progress_file
             /\ synced_assets' = synced_assets
             /\ final_file' = final_file
             /\ cleanup_assets' = cleanup_assets
             /\ phase' = "delete_assets"
             /\ deletion_order' = deletion_order
             /\ order_i' = order_i
      ]_vars

\* the delete of asset 1001 has failed, the delete of asset 1002 has been done and
\* recorded after it, and the loop over the locations has been entered
C15_Witness ==
    /\ Len(deletes) >= 3
    /\ deletes[1] = [kind |-> "asset", id |-> "1001", ok |-> FALSE, sent |-> TRUE]
    /\ deletes[2] = [kind |-> "asset", id |-> "1002", ok |-> TRUE, sent |-> TRUE]
    /\ deletes[3].kind = "location"
    /\ \E a \in maximo_assets : a[2] = "1001"
    /\ \E n \in DOMAIN progress_file.lines :
          progress_file.lines[n] = [type |-> "delete_asset", key |-> <<"g2", "1002">>]

\* C16: when the delete of a location fails and the location neither has children
\* nor is referenced by an asset, no delete_location record is written and cleanup
\* goes on with the next location of the deletion order.
C16_OtherFailureSkipsLocation ==
    [][\A X \in CleanupIds :
          (/\ LocationTurn(X)
           /\ ~\E e \in maximo : e[2] = X
           /\ ~\E a \in maximo_assets : a[3] = X
           /\ \E e \in maximo' : e[1] = X)
          => /\ NewLines = <<>>
             /\ phase' = "delete_locations"
             /\ order_i' = order_i + 1
      ]_vars

----------------------------------------------------------------------------
(* More claims about the journal and the snapshot *)

\* the keys the journal creates and later deletes, with no create after the delete
CreatedThenDeleted(lines, create, delete) ==
    {k \in NetEffect(lines, delete) :
        \E i, j \in DOMAIN lines :
            /\ i < j
            /\ lines[i] = [type |-> create, key |-> k]
            /\ lines[j] = [type |-> delete, key |-> k]}

\* C17: a key created and then deleted within one run is absent from the snapshot the
\* commit of the run writes, also when the previous snapshot held it.
C17_CreateThenDeleteIsAbsent ==
    pc = "wf_written" =>
        /\ \A k \in CreatedThenDeleted(progress_file.lines, "create_location",
                                       "delete_location") :
              k \notin TupleSet(final_file.synced_locations)
        /\ \A k \in CreatedThenDeleted(progress_file.lines, "create_asset", "delete_asset") :
              k \notin TupleSet(final_file.synced_assets)

\* the previous snapshot held (B, A); the run has created and deleted it, and the
\* snapshot just written is without it
C17_Witness ==
    /\ pc = "wf_written"
    /\ <<"B", "A">> \in existing_locations
    /\ <<"B", "A">> \in CreatedThenDeleted(progress_file.lines, "create_location",
                                           "delete_location")
    /\ final_file.state = "ok"
    /\ <<"B", "A">> \notin TupleSet(final_file.synced_locations)

RecordTypes == {"create_location", "delete_location", "create_asset", "delete_asset"}

\* C18: between the start of a run and its commit or reset the journal only grows at
\* its end, and each add_location, delete_location, add_asset and delete_asset that
\* returns has added exactly its record behind the lines the journal held.
C18_JournalAppendOnly ==
    [][(pc = "idle" /\ pc' = "idle" /\ lastOp' \notin {"commit", "reset_progress"})
          => /\ IsPrefix(progress_file.lines, progress_file'.lines)
             /\ lastOp' \in RecordTypes =>
                   \E r \in Records :
                       /\ r.type = lastOp'
                       /\ progress_file'.lines = Append(progress_file.lines, r)
      ]_vars

\* the lines of a journal that are records
WellFormed(lines) == SelectSeq(lines, LAMBDA r : r # Malformed)

\* C19: load_progress does not fail on a malformed line; it leaves the file alone and
\* the sets are the ones it started from changed by the well-formed records, in
\* order, those before and those after a malformed line.
C19_ReplaySkipsMalformed ==
    [][lastOp' = "load_progress"
          => LET W == WellFormed(progress_file.lines)
             IN  /\ progress_file' = progress_file
                 /\ synced_locations' =
                       (synced_locations \ NetEffect(W, "delete_location"))
                           \cup NetEffect(W, "create_location")
                 /\ synced_assets' =
                       (synced_assets \ NetEffect(W, "delete_asset"))
                           \cup NetEffect(W, "create_asset")
      ]_vars

\* a journal with a malformed line between two records has been replayed, and the
\* record before it and the record after it are both in the sets
C19_Witness ==
    /\ lastOp = "load_progress"
    /\ progress_file.lines =
          <<[type |-> "create_location", key |-> <<"B", "A">>], Malformed,
            [type |-> "create_asset", key |-> <<"g1", "1001">>]>>
    /\ synced_locations = {<<"B", "A">>}
    /\ synced_assets = {<<"g1", "1001">>}

\* C20: after write_final_file has completed the journal holds no record and the
\* tracker's sets are empty, as after reset_progress.
C20_CommitResetsTracker ==
    lastOp = "commit" =>
        /\ progress_file.lines = <<>>
        /\ synced_assets = {}
        /\ synced_locations = {}

----------------------------------------------------------------------------
(* Claims about failures *)

\* C21: a snapshot file that does not exist is read as empty sets and is no error;
\* cleanup without a snapshot goes on with the sets replayed from the journal.
C21_NoSnapshotIsEmptySnapshot ==
    [][(phase = "cleanup" /\ final_file.state = "absent" /\ phase' # phase)
          => /\ phase' = "delete_assets"
             /\ cleanup_locations' = synced_locations'
             /\ cleanup_assets' = synced_assets'
      ]_vars

\* C22: a failure to append a record to the journal stops the run; the run does not
\* go on with the next product.
C22_JournalWriteFailureStopsRun ==
    lastOp = "sync_product_write_error" => phase = "failed"

\* C23: during creation a failure of a target operation for one location or one
\* product is caught at that entity: the loop goes on with the next one, and only
\* store_progress can fail the run.
C23_CreationFailureIsPerEntity ==
    [][/\ (pc = "idle" /\ lastOp' \in {"sync_location_error", "sync_product_error",
                                      "sync_product_no_payload_error"})
          => /\ pc' = "idle"
             /\ phase' = phase
             /\ phase = "sync_locations" =>
                   \E id \in pending : pending' = pending \ {id}
             /\ phase = "sync_products" => product_i' = product_i + 1
       /\ phase' = "failed" => phase \in {"store_progress", "failed"}
      ]_vars

\* an upsert of a location has failed, the first of two products has failed, the
\* second has been synced and recorded, and the run is at store_progress
C23_Witness ==
    /\ phase = "store_progress"
    /\ \E i \in DOMAIN upserts : ~upserts[i].ok
    /\ Len(products) = 2
    /\ progress_file.lines =
          <<[type |-> "create_location", key |-> <<"F2", "B">>],
            [type |-> "create_asset", key |-> <<"g2", "1002">>]>>

\* C24: every successful upsert of a location by sync_location_with_parents has a
\* create_location record with its effective parent in the journal, and the id of
\* the location is in the synced collection of the run.
C24_UpsertIsRecordedAndMemoized ==
    \A i \in DOMAIN upserts :
        upserts[i].ok =>
            /\ \E n \in DOMAIN progress_file.lines :
                  progress_file.lines[n] =
                      [type |-> "create_location",
                       key |-> <<upserts[i].location, upserts[i].parent>>]
            /\ \E k \in DOMAIN synced : synced[k] = upserts[i].guid

\* the upserts one call of sync_location has sent
NewUpserts == SubSeq(upserts', Len(upserts) + 1, Len(upserts'))

\* C25: when an upsert fails inside sync_location_with_parents the exception reaches
\* the caller, no journal record is written, the id is not added to the synced
\* collection, and nothing is upserted after it in that call.
C25_FailedUpsertPropagates ==
    [][phase = "sync_locations" =>
          \A i \in DOMAIN NewUpserts :
              ~NewUpserts[i].ok =>
                  /\ i = Len(NewUpserts)
                  /\ lastOp' = "sync_location_error"
                  /\ progress_file' = progress_file
                  /\ \A k \in DOMAIN synced' : synced'[k] # NewUpserts[i].guid
      ]_vars

\* the upsert of A has failed; B, a production location under A, has had its call
\* and was not upserted
C25_Witness ==
    /\ pending = {}
    /\ "B" \in production_location_ids
    /\ "B" \in DOMAIN locations
    /\ locations["B"].parentGuid = "A"
    /\ \E i \in DOMAIN upserts : upserts[i].guid = "A" /\ ~upserts[i].ok
    /\ \A i \in DOMAIN upserts : upserts[i].guid # "B"

\* C26: sync_location_with_parents ends on every index, cyclic parent links
\* included, because the synced check stops the recursion: no call that the run has
\* made runs into the recursion limit, whatever upserts fail.
C26_RecursionStoppedBySyncedCheck ==
    \A g \in production_location_ids \ pending :
        \A fails \in SUBSET Guids :
            LET r == SyncLocationWithParents(g, locations, <<>>, <<>>, fails, 0)
            IN  ~(r.kind = "raise" /\ r.value = "RecursionError")

\* the location g is flattened: it has no parent, or its parent is named "Default"
Flattened(g) ==
    /\ g \in DOMAIN locations
    /\ \/ locations[g].parentGuid = None
       \/ /\ locations[g].parentGuid \in DOMAIN locations
          /\ locations[locations[g].parentGuid].name = "Default"

\* C27: a location with no parent, or whose parent is named "Default", is upserted
\* with the configured root as its parent, and a location named "Default" is not
\* upserted as the parent of another one (only by the call for itself).
C27_FlatteningRule ==
    [][phase = "sync_locations" =>
          \A i \in DOMAIN NewUpserts :
              /\ Flattened(NewUpserts[i].guid) => NewUpserts[i].parent = parentId
              /\ NewUpserts[i].location = "Default"
                    => NewUpserts[i].guid \in pending \ pending'
      ]_vars

\* B, whose parent is the placeholder "Default", has been upserted under the root,
\* and the placeholder has not been upserted
C27_Witness ==
    /\ "B" \in DOMAIN locations
    /\ locations["B"].parentGuid = "D"
    /\ "D" \in DOMAIN locations
    /\ \E i \in DOMAIN upserts :
          /\ upserts[i].guid = "B" /\ upserts[i].ok
          /\ upserts[i].parent = parentId
    /\ \A i \in DOMAIN upserts : upserts[i].guid # "D"

----------------------------------------------------------------------------
(* Claims about the roots of the traversal of cleanup *)

\* the nodes the traversal starts from, as the recorded edges give them: the
\* configured root alone when an edge names it, otherwise the locations that are
\* the parent of an edge and the child of none
StartNodes(edges) ==
    IF \E e \in edges : e[1] = parentId \/ e[2] = parentId
    THEN {parentId}
    ELSE {n \in Nodes(edges) : /\ \E e \in edges : e[2] = n
                               /\ ~\E e \in edges : e[1] = n}

\* the position of n in the deletion order
OrderIndex(n) == CHOOSE i \in DOMAIN deletion_order : deletion_order[i] = n

\* C28: the traversal of cleanup starts from the configured root alone when a
\* recorded edge names it, and otherwise, in sorted order, from the locations that are
\* a parent and never a child: the deletion order holds the start nodes and what is
\* below them and nothing else (the configured root left out), and of two start
\* nodes the smaller one comes first.
C28_RootSelection ==
    lastOp = "cleanup_order" =>
        LET starts == StartNodes(cleanup_locations)
            below  == UNION {Descendants(r, cleanup_locations) : r \in starts}
        IN  /\ {deletion_order[i] : i \in DOMAIN deletion_order}
                  = (starts \cup below) \ {parentId}
            /\ \A r1 \in starts, r2 \in starts :
                  StrRank(r1) < StrRank(r2) => OrderIndex(r1) < OrderIndex(r2)

\* an edge names the configured root: C under B is not below it and is left out
C28_Witness ==
    /\ lastOp = "cleanup_order"
    /\ cleanup_locations = {<<"A", parentId>>, <<"C", "B">>}
    /\ deletion_order = <<"A">>

----------------------------------------------------------------------------
(* Claims about the order of the records *)

\* the permutations of the positions of a journal
LinePermutations(lines) ==
    {f \in [DOMAIN lines -> DOMAIN lines] :
        \A i, j \in DOMAIN lines : f[i] = f[j] => i = j}

\* the journal with its records in the order f
Permuted(lines, f) == [i \in DOMAIN lines |-> lines[f[i]]]

\* f keeps the records about one key in their order
KeepsKeyOrder(lines, f) ==
    \A i, j \in DOMAIN lines :
        (i < j /\ lines[f[i]].key = lines[f[j]].key) => f[i] < f[j]

\* C29: the sets replay produces do not depend on the order of the records: every
\* permutation of the journal replays to the same synced_assets and synced_locations.
C29_ReplayOrderIndependent ==
    [][lastOp' = "load_progress" =>
          \A f \in LinePermutations(progress_file.lines) :
              ReplayLines(Sets(synced_assets, synced_locations),
                          Permuted(progress_file.lines, f))
                  = Sets(synced_assets', synced_locations')
      ]_vars

\* C29, amended: every permutation of the journal that keeps the records about each
\* key in their order replays to the same synced_assets and synced_locations.
C29_ReplayOrderIndependentPerKey ==
    [][lastOp' = "load_progress" =>
          \A f \in LinePermutations(progress_file.lines) :
              KeepsKeyOrder(progress_file.lines, f) =>
                  ReplayLines(Sets(synced_assets, synced_locations),
                              Permuted(progress_file.lines, f))
                      = Sets(synced_assets', synced_locations')
      ]_vars

\* a journal with records about three keys has been replayed: its records can be
\* reordered in six ways
C29_Witness ==
    /\ lastOp = "load_progress"
    /\ progress_file.lines =
          <<[type |-> "create_location", key |-> <<"B", parentId>>],
            [type |-> "create_asset", key |-> <<"g1", "1001">>],
            [type |-> "create_location", key |-> <<"B", "A">>]>>
    /\ synced_locations = {<<"B", parentId>>, <<"B", "A">>}
    /\ synced_assets = {<<"g1", "1001">>}

\* no location is the child of two edges of the set
OneParentEach(edges) ==
    \A e1 \in edges, e2 \in edges : e1[1] = e2[1] => e1 = e2

\* C30: after any sequence of add_location, delete_location, replay and commit every
\* location is the child of at most one edge of the synced locations and of the
\* snapshot.
C30_TreeInvariant ==
    /\ OneParentEach(synced_locations)
    /\ final_file.state = "ok" => OneParentEach(TupleSet(final_file.synced_locations))

----------------------------------------------------------------------------
(* Claims about what the journal records *)

C32_UnmappedProductLeavesNothing ==
    lastOp = "sync_product_no_payload_error" =>
        LET product == products[product_i - 1]
            folded  == Replayed(Sets({}, {}), progress_file)
        IN  /\ ~\E e \in maximo : e[1] = product.FunctionalLocationId
            /\ ~\E e \in folded.locations : e[1] = product.FunctionalLocationId
            /\ ~\E a \in folded.assets : a[1] = product.Guid

----------------------------------------------------------------------------
(* Claims about the hierarchy index *)

RECURSIVE GuidsOf(_)
\* the Guids of the locations of a payload
GuidsOf(locs) ==
    IF locs = <<>> THEN {}
    ELSE (IF Head(locs).guid # None THEN {Head(locs).guid} ELSE {})
             \cup GuidsOf(Head(locs).children) \cup GuidsOf(Tail(locs))

RECURSIVE Occurrences(_, _)
\* how many locations of a payload have the Guid g
Occurrences(locs, g) ==
    IF locs = <<>> THEN 0
    ELSE (IF Head(locs).guid = g THEN 1 ELSE 0)
             + Occurrences(Head(locs).children, g) + Occurrences(Tail(locs), g)

RECURSIVE BelowNoIdentity(_, _)
\* the Guids of the locations that are children of a location without a Guid
BelowNoIdentity(locs, under) ==
    IF locs = <<>> THEN {}
    ELSE (IF under /\ Head(locs).guid # None THEN {Head(locs).guid} ELSE {})
             \cup BelowNoIdentity(Head(locs).children, Head(locs).guid = None)
             \cup BelowNoIdentity(Tail(locs), under)

\* C33: a location without a Guid is not in the index, the locations below it are,
\* and a child of it is upserted with the configured root as its parent.
C33_NoIdentityNodeIsSkipped ==
    phase = "sync_locations" =>
        /\ DOMAIN locations = GuidsOf(source_locations)
        /\ \A g \in BelowNoIdentity(source_locations, FALSE) :
              Occurrences(source_locations, g) = 1 =>
                  /\ locations[g].parentGuid = None
                  /\ \A i \in DOMAIN upserts :
                        upserts[i].guid = g => upserts[i].parent = parentId

\* B is below a location without a Guid that is below A: B is upserted under the
\* configured root
C33_Witness ==
    /\ source_locations =
          <<Location("A", <<Location(None, <<Location("B", <<>>)>>)>>)>>
    /\ \E i \in DOMAIN upserts :
          /\ upserts[i].guid = "B" /\ upserts[i].ok
          /\ upserts[i].parent = parentId

----------------------------------------------------------------------------
(* Claims about commits and the memory of the tracker *)

\* C34: write_final_file with a journal that is absent or empty leaves the assets
\* and the locations of the snapshot as they were.
C34_EmptyCommitChangesNothing ==
    [][(pc = "wf_open" /\ pc' = "wf_written" /\ progress_file.lines = <<>>)
          => /\ TupleSet(final_file'.synced_assets) = existing_assets
             /\ TupleSet(final_file'.synced_locations) = existing_locations
      ]_vars

\* C35: between two operations of the tracker its synced_assets and synced_locations
\* are the fold of the journal file, as it is then, from empty sets.
C35_MemoryIsFoldOfJournal ==
    pc = "idle" =>
        Sets(synced_assets, synced_locations) = Replayed(Sets({}, {}), progress_file)

----------------------------------------------------------------------------
(* Claims about progress *)

RECURSIVE ChainWithin(_, _)
\* g and the locations above it, up to one that is flattened, at most k of them
ChainWithin(g, k) ==
    IF k = 0 \/ g \notin DOMAIN locations THEN {}
    ELSE {g} \cup (IF Flattened(g) THEN {}
                   ELSE ChainWithin(locations[g].parentGuid, k - 1))

\* C36: when no target call fails, sync_locations in the end has upserted every
\* production location of the index and every location above it up to the root or
\* a parent named "Default".
C36_EveryProductionLocationSynced ==
    <>(\A g \in production_location_ids :
          \A a \in ChainWithin(g, Cardinality(DOMAIN locations)) :
              \E i \in DOMAIN upserts : upserts[i].guid = a /\ upserts[i].ok)

\* the target refuses the delete of X with a conflict: X has a child, or an asset
\* references it
Conflict(X) ==
    \/ \E e \in maximo : e[2] = X
    \/ \E a \in maximo_assets : a[3] = X

\* the calls one turn sends to the target are no more than two for each location
\* and asset the target holds, and one
FewTargetCalls ==
    Len(NewDeletes) <= 2 * (Cardinality(maximo) + Cardinality(maximo_assets)) + 1

C38_DeletionOrderIsComplete ==
    lastOp = "cleanup_order" =>
        /\ {deletion_order[i] : i \in DOMAIN deletion_order}
              = Nodes(cleanup_locations) \ {parentId}
        /\ \A i, j \in DOMAIN deletion_order :
              deletion_order[i] = deletion_order[j] => i = j

\* the target has done a delete of the entity
DeleteSucceeded(kind, id) ==
    \E n \in DOMAIN deletes :
        deletes[n].kind = kind /\ deletes[n].id = id /\ deletes[n].ok

\* C39: after cleanup and a commit the snapshot holds the recorded assets and
\* locations whose delete did not succeed, and no others.
C39_SnapshotKeepsWhatWasNotDeleted ==
    phase = "stored" =>
        /\ final_file.state = "ok"
        /\ TupleSet(final_file.synced_assets)
              = {a \in cleanup_assets : ~DeleteSucceeded("asset", a[2])}
        /\ TupleSet(final_file.synced_locations)
              = {e \in cleanup_locations : ~DeleteSucceeded("location", e[1])}

====
